---- MODULE Spec2Model ----
(***************************************************************************)
(* Model of reSIDfp's WaveformCalculator                                   *)
(* (src/builders/residfp-builder/residfp/WaveformCalculator.cpp):          *)
(*   - the singleton getInstance() and the constructor that fills the      *)
(*     basic waveform table wftable,                                       *)
(*   - buildPulldownTable(model, cws), the mutex-protected lookup-or-build *)
(*     over PULLDOWN_CACHE,                                                *)
(*   - the pure functions triXor and calculatePulldown.                    *)
(*                                                                         *)
(* Floating point.  calculatePulldown compares a float expression with the *)
(* float threshold.  Its value depends on pow() and on float rounding,     *)
(* which integers cannot reproduce, so the outcome of the comparison for a *)
(* bit whose signal is positive is an input of the model (gt, a set of bit *)
(* positions where "bitValue > threshold" comes out true).  The parts of   *)
(* the comparison that are exact in IEEE arithmetic are computed: whether  *)
(* bit[i] > 0.f (which for bit 11 depends on the sign of topbit), and      *)
(* 0.f > threshold for a bit whose signal is not positive.  Parameters are *)
(* kept as integers in units of 10^-6 (truncated), which keeps every sign. *)
(*                                                                         *)
(* Specifications.                                                         *)
(*   Spec      threads calling getInstance and buildPulldownTable          *)
(*   FairSpec  the same steps under fair scheduling                        *)
(*   SeqSpec   one caller, any number of calls with any arguments          *)
(*   FnSpec    one evaluation of the constructor's loop body or of         *)
(*             calculatePulldown, for every phase and parameter entry      *)
(***************************************************************************)
EXTENDS Integers, Sequences, FiniteSets, TLC

VARIABLES
    pc,        \* pc[t]: where thread t is
    inst,      \* inst[t]: the WaveformCalculator* thread t got from getInstance
    guard,     \* initialization state of the function-local static `instance`
    ctorRuns,  \* how many times the constructor has been entered
    wftable,   \* the columns of wftable written so far, in loop order
    mutex,     \* PULLDOWN_CACHE_Lock: the owning thread, or NoThread
    arg,       \* arg[t]: the (model, cws) of thread t's buildPulldownTable call
    cache,     \* PULLDOWN_CACHE: cfgArray -> node (address, table)
    builds,    \* builds[k]: how many times the table of cfgArray k was computed
    calls,     \* number of buildPulldownTable calls started (thread model)
    watch,     \* the (model, cws) whose returns are recorded
    refs,      \* the table references returned so far to calls with watch
    first,     \* the tables read through the reference at the first such return
    again,     \* a call with watch has returned after the first such return
    fgt,       \* the float unit: bit positions where bitValue > threshold holds
    fn         \* one evaluation of the pure functions (specification FnSpec)

vars == <<pc, inst, guard, ctorRuns, wftable, mutex, arg, cache,
          builds, calls, watch, refs, first, again, fgt, fn>>

(***************************************************************************)
(* Bounds of the model.                                                    *)
(***************************************************************************)
NumThreads == 2
MaxCalls == 2
\* computations of one configuration's table a run may make (one is enough
\* when the cache works)
MaxBuilds == 2

Threads == 1..NumThreads
NoThread == 0
None == "none"

(***************************************************************************)
(* Integer helpers: C++ bit operations on non-negative values.             *)
(***************************************************************************)
Pow2(i) == 2^i

Bit(n, i) == (n \div Pow2(i)) % 2

RECURSIVE BitOp(_, _, _, _)
BitOp(op, a, b, n) ==
    IF n = 0 THEN 0
    ELSE LET x == a % 2
             y == b % 2
             z == CASE op = "and" -> x * y
                    [] op = "xor" -> (x + y) % 2
         IN  z + 2 * BitOp(op, a \div 2, b \div 2, n - 1)

\* Every operand of the code's bit operations is below 2^16 (a 12-bit phase,
\* shifted left by one at most), so 16 bit positions cover them.
WordBits == 16
BitAnd(a, b) == BitOp("and", a, b, WordBits)
BitXor(a, b) == BitOp("xor", a, b, WordBits)
\* v | (1u << i)
SetBit(v, i) == IF Bit(v, i) # 0 THEN v ELSE v + Pow2(i)
ShiftLeft(a, k) == a * Pow2(k)

\* static_cast<short>: wrap to 16 bits, two's complement
ToShort(x) == ((x + 32768) % 65536) - 32768

(***************************************************************************)
(* Combined waveform model parameters (CombinedWaveformConfig).  Floats    *)
(* are in units of 10^-6, truncated.                                       *)
(***************************************************************************)
Cfg(f, th, tb, ps, d1, d2) ==
    [distFunc |-> f, threshold |-> th, topbit |-> tb, pulsestrength |-> ps,
     distance1 |-> d1, distance2 |-> d2]

\* 1.f in the units of the parameters
One == 1000000

configAverage ==
    << <<Cfg("exponentialDistance", 877322, 1113496, 0, 2145376, 9086181),
         Cfg("linearDistance", 941692, 1000000, 1800726, 33124, 232303),
         Cfg("linearDistance", 1664941, 1037609, 5627053, 291590, 283631),
         Cfg("linearDistance", 1097625, 975265, 1521967, 151528, 841949),
         Cfg("exponentialDistance", 960000, 1000000, 2500000, 1100000, 1200000)>>,
       <<Cfg("exponentialDistance", 841851, 1092336, 0, 1852627, 6222243),
         Cfg("exponentialDistance", 929835, 1000000, 1128368, 1104536, 1480657),
         Cfg("quadraticDistance", 911938, 996440, 1227807, 117, 189484),
         Cfg("exponentialDistance", 932317, 1038921, 1206834, 891974, 1424518),
         Cfg("exponentialDistance", 950000, 1000000, 1150000, 1000000, 1450000)>> >>

configWeak ==
    << <<Cfg("exponentialDistance", 886832, 1000000, 0, 2144387, 9518394),
         Cfg("linearDistance", 1012625, 1000000, 2460705, 53748, 98624),
         Cfg("linearDistance", 2148963, 1021671, 10540008, 244498, 126134),
         Cfg("linearDistance", 1290617, 975431, 3153774, 96834, 318573),
         Cfg("exponentialDistance", 960000, 1000000, 2500000, 1100000, 1200000)>>,
       <<Cfg("exponentialDistance", 816124, 1312087, 0, 1923478, 2350279),
         Cfg("exponentialDistance", 917997, 1000000, 1012489, 1057615, 1375298),
         Cfg("quadraticDistance", 970038, 1008446, 1302988, 9799, 146854),
         Cfg("exponentialDistance", 941834, 1064011, 991132, 995310, 1411058),
         Cfg("exponentialDistance", 950000, 1000000, 1150000, 1000000, 1450000)>> >>

configStrong ==
    << <<Cfg("exponentialDistance", 637, 1567258, 0, 368, 1518009),
         Cfg("linearDistance", 924824, 1000000, 1967494, 89180, 234794),
         Cfg("linearDistance", 1232807, 730791, 3971949, 1565, 314677),
         Cfg("linearDistance", 1085582, 857638, 1527817, 152927, 1026570),
         Cfg("exponentialDistance", 960000, 1000000, 2500000, 1100000, 1200000)>>,
       <<Cfg("exponentialDistance", 897626, 56759418, 0, 7689952, 12075419),
         Cfg("exponentialDistance", 867885, 1000000, 1451189, 1070575, 1433337),
         Cfg("quadraticDistance", 892557, 1225389, 1756158, 24504, 129824),
         Cfg("linearDistance", 911249, 963609, 909965, 1074458, 1823997),
         Cfg("exponentialDistance", 950000, 1000000, 1150000, 1000000, 1450000)>> >>

\* A cfgArray is a pointer to one row of one of the three tables: the cache
\* key.  <<table, modelIdx>> names the row.
CfgArrays ==
    {<<n, m>> : n \in {"configAverage", "configWeak", "configStrong"}, m \in {0, 1}}

\* *cfgArray: the five entries the pointer points to
Deref(cfgArray) ==
    LET table == CASE cfgArray[1] = "configAverage" -> configAverage
                   [] cfgArray[1] = "configWeak"    -> configWeak
                   [] cfgArray[1] = "configStrong"  -> configStrong
    IN  table[cfgArray[2] + 1]

\* The order std::map's key_comp (std::less on pointers) puts the keys in:
\* the rows in the order the file lays them out.
AddrOf(cfgArray) ==
    (CASE cfgArray[1] = "configAverage" -> 0
       [] cfgArray[1] = "configWeak"    -> 2
       [] cfgArray[1] = "configStrong"  -> 4) + cfgArray[2]

Wavs == 0..4
AccBits == 0..11
Phases == 0..(Pow2(12) - 1)

(***************************************************************************)
(* triXor and the constructor's loop body.                                 *)
(***************************************************************************)
\* triXor with no fold of the falling half
triXorNoFold(val) == ShiftLeft(val, 1)

\* triXor folding with a 16-bit mask
triXorWideMask(val) ==
    ShiftLeft(IF BitAnd(val, 2048) = 0 THEN val ELSE BitXor(val, 65535), 1)

triXor(val) ==
    ShiftLeft(IF BitAnd(val, 2048) = 0 THEN val ELSE BitXor(val, 4095), 1)

\* wftable[0..3][idx] as the constructor's loop body writes them
WaveColumn(idx) ==
    LET saw == ToShort(idx)
        tri == ToShort(triXor(idx))
    IN  [w0 |-> 4095,
         w1 |-> tri,
         w2 |-> saw,
         w3 |-> ToShort(BitAnd(saw, ShiftLeft(saw, 1)))]

(***************************************************************************)
(* calculatePulldown.  gt stands for the float results that depend on the  *)
(* distance table and pulsestrength: the bit positions i, among those with *)
(* bit[i] > 0.f, where 1.f - pulldown[i] > threshold.                      *)
(***************************************************************************)
\* bit[i] after "bit[11] *= topbit"
BitSignal(topbit, accumulator, i) ==
    IF Bit(accumulator, i) # 0
    THEN (IF i = 11 THEN topbit ELSE One)
    ELSE 0

\* the comparison without the "bit[i] > 0.f ?" guard: bitValue = 1.f - pulldown[i]
BitValueAboveThresholdUnguarded(gt, topbit, threshold, accumulator, i) == i \in gt

\* bitValue > threshold, for bitValue = bit[i] > 0.f ? 1.f - pulldown[i] : 0.f
BitValueAboveThreshold(gt, topbit, threshold, accumulator, i) ==
    IF BitSignal(topbit, accumulator, i) > 0
    THEN i \in gt
    ELSE 0 > threshold

\* the last loop, from iteration i on, value being the bits set so far
RECURSIVE PredictedValue(_, _, _, _, _, _)
PredictedValue(gt, topbit, threshold, accumulator, i, value) ==
    IF i = 12 THEN value
    ELSE PredictedValue(gt, topbit, threshold, accumulator, i + 1,
             IF BitValueAboveThreshold(gt, topbit, threshold, accumulator, i)
             THEN ToShort(SetBit(value, i))
             ELSE value)

calculatePulldown(gt, topbit, threshold, accumulator) ==
    PredictedValue(gt, topbit, threshold, accumulator, 0, 0)

\* pdTable[wav][idx] as buildPulldownTable's inner loop writes it
PulldownCell(gt, cfgArray, wav, idx) ==
    LET cfg == Deref(cfgArray)[wav + 1]
    IN  calculatePulldown(gt, cfg.topbit, cfg.threshold, idx)

\* The outcomes of the float comparisons the model explores: for every bit
\* position both outcomes, alone and next to the other outcome.
GtMasks == {{}, AccBits, {i \in AccBits : i % 2 = 0}, {i \in AccBits : i % 2 = 1}}

\* The outcomes the cache models run with (the cache never looks into a table)
CacheGtMasks == {AccBits, {i \in AccBits : i % 2 = 0}}

(***************************************************************************)
(* Arguments of buildPulldownTable.  ChipModel and CombinedWaveforms are   *)
(* plain enums: "BadModel" and "BadCws" stand for a value that is none of  *)
(* the enumerators.                                                        *)
(***************************************************************************)
ChipModels == {"MOS6581", "MOS8580"}
Variances == {"AVERAGE", "WEAK", "STRONG"}
ModelArgs == ChipModels \cup {"BadModel"}
CwsArgs == Variances \cup {"BadCws"}
ArgPairs == ModelArgs \X CwsArgs
ValidPairs == ChipModels \X Variances
NoArg == <<None, None>>

\* the test turned round: model == MOS8580 ? 1 : 0
ModelIdxBy8580(model) == IF model = "MOS8580" THEN 1 ELSE 0

\* const int modelIdx = model == MOS6581 ? 0 : 1;
ModelIdx(model) == IF model = "MOS6581" THEN 0 ELSE 1

\* the switch with the break after "case AVERAGE" missing
CfgArrayOfFallthrough(model, cws) ==
    CASE cws = "STRONG" -> <<"configStrong", ModelIdx(model)>>
      [] OTHER          -> <<"configWeak", ModelIdx(model)>>

\* switch (cws): the row the call works on
CfgArrayOf(model, cws) ==
    CASE cws = "WEAK"   -> <<"configWeak", ModelIdx(model)>>
      [] cws = "STRONG" -> <<"configStrong", ModelIdx(model)>>
      [] OTHER          -> <<"configAverage", ModelIdx(model)>>

(***************************************************************************)
(* PULLDOWN_CACHE: a std::map, as its set of nodes.  A node has the key,   *)
(* its address (nodes never move) and the table it holds.                  *)
(***************************************************************************)
\* An iterator is the set holding the node it points to; end() is empty.
End == {}

\* The phases of a table the cache model keeps (a table row has 4096).
PdPhases == {0, 2730, 4095}

\* matrix_t pdTable(5, 4096) filled by the two loops
BuildTable(gt, cfgArray) ==
    [cfg  |-> cfgArray,
     data |-> [wav \in Wavs |-> [idx \in PdPhases |-> PulldownCell(gt, cfgArray, wav, idx)]]]

\* BuildTable tabulated, so that a step looks the table up instead of
\* computing it again
pdTables == [gt \in GtMasks |-> [cfgArray \in CfgArrays |-> BuildTable(gt, cfgArray)]]

\* PULLDOWN_CACHE.lower_bound(cfgArray): the first node whose key is not less
LowerBound(map, cfgArray) ==
    LET geq == {n \in map : AddrOf(n.key) >= AddrOf(cfgArray)}
    IN  IF geq = {} THEN End
        ELSE {CHOOSE n \in geq : \A o \in geq : AddrOf(n.key) <= AddrOf(o.key)}

\* lb != end() && !key_comp(cfgArray, lb->first)
CacheHit(lb, cfgArray) ==
    lb # End /\ \A n \in lb : ~(AddrOf(cfgArray) < AddrOf(n.key))

\* a container that moves its elements when it grows
EmplaceHintMoving(map, cfgArray, pdTable, addr) ==
    IF \E n \in map : n.key = cfgArray
    THEN map
    ELSE {[n EXCEPT !.addr = <<n.key, n.addr[2] + 10>>] : n \in map}
         \cup {[key |-> cfgArray, addr |-> addr, table |-> pdTable]}

\* a cache that keeps the last table only
EmplaceHintEvicting(map, cfgArray, pdTable, addr) ==
    {[key |-> cfgArray, addr |-> addr, table |-> pdTable]}

\* PULLDOWN_CACHE.emplace_hint(lb, value_type(cfgArray, pdTable)): a map keeps
\* one node per key and never moves a node.  The new node's address is fresh:
\* addr names it.
EmplaceHint(map, cfgArray, pdTable, addr) ==
    IF \E n \in map : n.key = cfgArray
    THEN map
    ELSE map \cup {[key |-> cfgArray, addr |-> addr, table |-> pdTable]}

\* the node emplace_hint's iterator points to
NodeOf(map, cfgArray) == CHOOSE n \in map : n.key = cfgArray

\* *ref for a returned matrix_t*: the tables at that address
TablesAt(map, ref) == {n.table : n \in {m \in map : m.addr = ref}}

(***************************************************************************)
(* The mutex and the static-initialization guard.                          *)
(***************************************************************************)
\* no lock taken
CanLockAlways(m, t) == TRUE

\* std::lock_guard's constructor returns once the mutex is free
CanLock(m, t) == m = NoThread

\* a return path that leaves the mutex locked
UnlockNever(m, t) == m

\* std::lock_guard's destructor, run on both return paths
Unlock(m, t) == IF m = t THEN NoThread ELSE m

\* The sample of phases the constructor's loop runs over in the thread model
\* (the loop itself runs over all of Phases; FnSpec covers every one).
CtorPhases == <<0, 100, 2048, 4095>>

\* a static whose initialization is not guarded: a thread that finds the
\* construction started takes the object as it is
StaticInitEntryUnguarded(g) ==
    CASE g = "uninit" -> "construct"
      [] OTHER        -> "pass"

\* "static WaveformCalculator instance;": a thread reaching the declaration
\* constructs when nothing has started, waits while another constructs, and
\* passes once construction is complete.
StaticInitEntry(g) ==
    CASE g = "uninit"       -> "construct"
      [] g = "constructing" -> "wait"
      [] g = "done"         -> "pass"

NoFn == [kind |-> None]
NoColumn == [w0 |-> 0, w1 |-> 0, w2 |-> 0, w3 |-> 0]

\* The state before any call
Init ==
    /\ pc = [t \in Threads |-> "idle"]
    /\ inst = [t \in Threads |-> None]
    /\ guard = "uninit"
    /\ ctorRuns = 0
    /\ wftable = <<>>
    /\ mutex = NoThread
    /\ arg = [t \in Threads |-> NoArg]
    /\ cache = {}
    /\ builds = [k \in CfgArrays |-> 0]
    /\ calls = 0
    /\ watch \in ArgPairs
    /\ refs = {}
    /\ first = {}
    /\ again = FALSE
    /\ fgt \in CacheGtMasks
    /\ fn = NoFn

histVars == <<watch, refs, first, again>>
cacheVars == <<mutex, arg, cache, builds, calls, histVars>>
instVars == <<inst, guard, ctorRuns, wftable>>

(***************************************************************************)
(* WaveformCalculator::getInstance and the constructor.                    *)
(***************************************************************************)
GetInstance(t) ==
    /\ pc[t] = "idle"
    /\ inst[t] = None
    /\ \/ /\ StaticInitEntry(guard) = "construct"
          /\ guard' = "constructing"
          /\ ctorRuns' = ctorRuns + 1
          /\ pc' = [pc EXCEPT ![t] = "ctor"]
          /\ UNCHANGED inst
       \/ /\ StaticInitEntry(guard) = "wait"
          /\ pc' = [pc EXCEPT ![t] = "initwait"]
          /\ UNCHANGED <<guard, ctorRuns, inst>>
       \/ /\ StaticInitEntry(guard) = "pass"
          /\ inst' = [inst EXCEPT ![t] = "instance"]
          /\ UNCHANGED <<guard, ctorRuns, pc>>
    /\ UNCHANGED <<wftable, cacheVars, fgt, fn>>

\* one iteration of the constructor's loop
CtorStep(t) ==
    /\ pc[t] = "ctor"
    /\ Len(wftable) < Len(CtorPhases)
    /\ wftable' = Append(wftable, WaveColumn(CtorPhases[Len(wftable) + 1]))
    /\ UNCHANGED <<pc, inst, guard, ctorRuns, cacheVars, fgt, fn>>

\* the constructor returns: initialization is complete, getInstance returns
CtorDone(t) ==
    /\ pc[t] = "ctor"
    /\ Len(wftable) >= Len(CtorPhases)
    /\ guard' = "done"
    /\ inst' = [inst EXCEPT ![t] = "instance"]
    /\ pc' = [pc EXCEPT ![t] = "idle"]
    /\ UNCHANGED <<ctorRuns, wftable, cacheVars, fgt, fn>>

\* a thread that waited for the initialization goes on
InitWaitDone(t) ==
    /\ pc[t] = "initwait"
    /\ guard = "done"
    /\ inst' = [inst EXCEPT ![t] = "instance"]
    /\ pc' = [pc EXCEPT ![t] = "idle"]
    /\ UNCHANGED <<guard, ctorRuns, wftable, cacheVars, fgt, fn>>

(***************************************************************************)
(* WaveformCalculator::buildPulldownTable.                                 *)
(***************************************************************************)
\* thread t calls buildPulldownTable(model, cws)
CallBuild(t, model, cws) ==
    /\ pc[t] = "idle"
    /\ inst[t] # None
    /\ calls < MaxCalls
    /\ calls' = calls + 1
    /\ arg' = [arg EXCEPT ![t] = <<model, cws>>]
    /\ pc' = [pc EXCEPT ![t] = "lock"]
    /\ UNCHANGED <<instVars, mutex, cache, builds, histVars, fgt, fn>>

\* std::lock_guard<std::mutex> lock(PULLDOWN_CACHE_Lock);
Lock(t) ==
    /\ pc[t] = "lock"
    /\ CanLock(mutex, t)
    /\ mutex' = t
    /\ pc' = [pc EXCEPT ![t] = "lookup"]
    /\ UNCHANGED <<instVars, arg, cache, builds, calls, histVars, fgt, fn>>

\* "return &(...->second)": the call of thread t returns ref, the map being
\* map; the lock_guard goes out of scope
Returned(t, map, ref) ==
    /\ refs' = IF arg[t] = watch THEN refs \cup {ref} ELSE refs
    /\ first' = IF arg[t] = watch /\ refs = {} THEN TablesAt(map, ref) ELSE first
    /\ again' = (again \/ (arg[t] = watch /\ refs # {}))
    /\ arg' = [arg EXCEPT ![t] = NoArg]
    /\ mutex' = Unlock(mutex, t)
    /\ pc' = [pc EXCEPT ![t] = "idle"]
    /\ UNCHANGED watch

\* lower_bound and the hit test; on a hit the call returns
Lookup(t) ==
    /\ pc[t] = "lookup"
    /\ LET cfgArray == CfgArrayOf(arg[t][1], arg[t][2])
           lb == LowerBound(cache, cfgArray)
       IN  \/ /\ CacheHit(lb, cfgArray)
              /\ Returned(t, cache, (CHOOSE n \in lb : TRUE).addr)
           \/ /\ ~CacheHit(lb, cfgArray)
              /\ pc' = [pc EXCEPT ![t] = "build"]
              /\ UNCHANGED <<mutex, arg, histVars>>
    /\ UNCHANGED <<instVars, cache, builds, calls, fgt, fn>>

\* the miss path: compute pdTable, insert it, return the inserted table
BuildInsert(t) ==
    /\ pc[t] = "build"
    /\ LET cfgArray == CfgArrayOf(arg[t][1], arg[t][2])
       IN  /\ builds[cfgArray] < MaxBuilds
           /\ builds' = [builds EXCEPT ![cfgArray] = @ + 1]
           /\ cache' = EmplaceHint(cache, cfgArray, pdTables[fgt][cfgArray],
                                   <<cfgArray, builds[cfgArray] + 1>>)
           /\ Returned(t, cache', NodeOf(cache', cfgArray).addr)
    /\ UNCHANGED <<instVars, calls, fgt, fn>>

Next ==
    \E t \in Threads :
        \/ GetInstance(t)
        \/ CtorStep(t)
        \/ CtorDone(t)
        \/ InitWaitDone(t)
        \/ \E model \in ModelArgs, cws \in CwsArgs : CallBuild(t, model, cws)
        \/ Lock(t)
        \/ Lookup(t)
        \/ BuildInsert(t)

Spec == Init /\ [][Next]_vars

(***************************************************************************)
(* One caller making any number of calls, one after the other: the state   *)
(* after getInstance has returned to thread 1.                             *)
(***************************************************************************)
SeqInit ==
    /\ pc = [t \in Threads |-> "idle"]
    /\ inst = [t \in Threads |-> IF t = 1 THEN "instance" ELSE None]
    /\ guard = "done"
    /\ ctorRuns = 1
    /\ wftable = [i \in 1..Len(CtorPhases) |-> WaveColumn(CtorPhases[i])]
    /\ mutex = NoThread
    /\ arg = [t \in Threads |-> NoArg]
    /\ cache = {}
    /\ builds = [k \in CfgArrays |-> 0]
    /\ calls = 0
    /\ watch \in ArgPairs
    /\ refs = {}
    /\ first = {}
    /\ again = FALSE
    /\ fgt \in CacheGtMasks
    /\ fn = NoFn

\* thread 1 calls buildPulldownTable(model, cws)
SeqCall(model, cws) ==
    /\ pc[1] = "idle"
    /\ arg' = [arg EXCEPT ![1] = <<model, cws>>]
    /\ pc' = [pc EXCEPT ![1] = "lock"]
    /\ UNCHANGED <<instVars, mutex, cache, builds, calls, histVars, fgt, fn>>

SeqNext ==
    \/ \E model \in ModelArgs, cws \in CwsArgs : SeqCall(model, cws)
    \/ Lock(1)
    \/ Lookup(1)
    \/ BuildInsert(1)

SeqSpec == SeqInit /\ [][SeqNext]_vars

(***************************************************************************)
(* The pure functions, one evaluation per behaviour: a column of wftable   *)
(* for any phase, or a cell of pdTable for any of the 30 parameter         *)
(* entries, any phase and any of the float outcomes GtMasks.               *)
(***************************************************************************)
FnInit ==
    /\ pc = [t \in Threads |-> "idle"]
    /\ inst = [t \in Threads |-> None]
    /\ guard = "uninit"
    /\ ctorRuns = 0
    /\ wftable = <<>>
    /\ mutex = NoThread
    /\ arg = [t \in Threads |-> NoArg]
    /\ cache = {}
    /\ builds = [k \in CfgArrays |-> 0]
    /\ calls = 0
    /\ watch = NoArg
    /\ refs = {}
    /\ first = {}
    /\ again = FALSE
    /\ \/ /\ fgt = {}
          /\ fn \in [kind : {"wave"}, idx : Phases, cfgArray : {<<"configAverage", 0>>},
                     wav : {0}, done : {FALSE}, col : {NoColumn}, value : {0}]
       \/ /\ fgt \in GtMasks
          /\ fn \in [kind : {"pulldown"}, idx : Phases, cfgArray : CfgArrays,
                     wav : Wavs, done : {FALSE}, col : {NoColumn}, value : {0}]

\* the constructor's loop body for idx = fn.idx
FnWaveform ==
    /\ fn.kind = "wave"
    /\ ~fn.done
    /\ fn' = [fn EXCEPT !.done = TRUE, !.col = WaveColumn(fn.idx)]
    /\ UNCHANGED <<instVars, pc, cacheVars, fgt>>

\* buildPulldownTable's inner loop body for wav = fn.wav, idx = fn.idx
FnPulldown ==
    /\ fn.kind = "pulldown"
    /\ ~fn.done
    /\ fn' = [fn EXCEPT !.done = TRUE,
                        !.value = PulldownCell(fgt, fn.cfgArray, fn.wav, fn.idx)]
    /\ UNCHANGED <<instVars, pc, cacheVars, fgt>>

FnNext == FnWaveform \/ FnPulldown

FnSpec == FnInit /\ [][FnNext]_vars

(***************************************************************************)
(* Fair scheduling of the threads inside buildPulldownTable: a thread that *)
(* can take a step takes it, and a thread waiting for the mutex gets it if *)
(* it is free again and again.                                             *)
(***************************************************************************)
Fairness ==
    \A t \in Threads :
        /\ SF_vars(Lock(t))
        /\ WF_vars(Lookup(t))
        /\ WF_vars(BuildInsert(t))

\* The state before any call, with no (model, cws) watched and one outcome of
\* the float comparisons: whether a call returns depends neither on what the
\* earlier returns were nor on what the tables hold.
FairInit ==
    /\ pc = [t \in Threads |-> "idle"]
    /\ inst = [t \in Threads |-> None]
    /\ guard = "uninit"
    /\ ctorRuns = 0
    /\ wftable = <<>>
    /\ mutex = NoThread
    /\ arg = [t \in Threads |-> NoArg]
    /\ cache = {}
    /\ builds = [k \in CfgArrays |-> 0]
    /\ calls = 0
    /\ watch = NoArg
    /\ refs = {}
    /\ first = {}
    /\ again = FALSE
    /\ fgt = AccBits
    /\ fn = NoFn

FairSpec == FairInit /\ [][Next]_vars /\ Fairness

(***************************************************************************)
(* The claims.                                                             *)
(***************************************************************************)
InBuild(t) == pc[t] \in {"lookup", "build"}
FullWftable == [i \in 1..Len(CtorPhases) |-> WaveColumn(CtorPhases[i])]

\* C1 (SeqSpec): all calls made with the same (model, cws) return the same
\* table reference, and what is read through that reference stays the table
\* read at the first return: a hit neither recomputes nor changes it, a later
\* miss for another configuration neither changes nor moves it.
C1_SameTableEveryCall ==
    /\ Cardinality(refs) <= 1
    /\ \A r \in refs : Cardinality(first) = 1 /\ TablesAt(cache, r) = first

\* a second call with the same arguments has returned, and the other five
\* configurations have been built as well
C1_Witness ==
    again /\ refs # {} /\ Cardinality(cache) = 6 /\ pc[1] = "idle"

\* C2 (Spec): no two threads are between taking and releasing
\* PULLDOWN_CACHE_Lock at the same time; the table of a configuration is
\* computed at most once, exactly once when the cache holds it; and every
\* caller gets the table inserted for its configuration.
C2_OneBuildPerConfiguration ==
    /\ Cardinality({t \in Threads : InBuild(t)}) <= 1
    /\ \A k \in CfgArrays :
          /\ builds[k] <= 1
          /\ builds[k] = Cardinality({n \in cache : n.key = k})
    /\ \A r \in refs :
          \E n \in cache : n.addr = r /\ n.key = CfgArrayOf(watch[1], watch[2])

\* two calls for the same configuration at the same time: one thread is
\* building the table, the other waits for the lock
C2_Witness ==
    \E t1, t2 \in Threads :
        /\ t1 # t2
        /\ pc[t1] = "build"
        /\ pc[t2] = "lock"
        /\ CfgArrayOf(arg[t1][1], arg[t1][2]) = CfgArrayOf(arg[t2][1], arg[t2][2])

\* C3 (SeqSpec): the cache never holds more than 6 entries, and a step never
\* removes or replaces an entry and adds at most one.
C3_CacheOnlyGrows ==
    /\ [](Cardinality(cache) <= 6)
    /\ [][cache \subseteq cache' /\ Cardinality(cache') <= Cardinality(cache) + 1]_vars

\* the cache is full and a call has been served from it
C3_Witness ==
    Cardinality(cache) = 6 /\ again /\ pc[1] = "idle"

\* C4 as stated: triangle(0) = 0, triangle(2048) = 8190, sawtooth(100) = 100,
\* constant-high = 4095 at every phase.
C4_GoldenValuesAsStated ==
    (fn.kind = "wave" /\ fn.done) =>
        /\ fn.col.w0 = 4095
        /\ (fn.idx = 0 => fn.col.w1 = 0)
        /\ (fn.idx = 2048 => fn.col.w1 = 8190)
        /\ (fn.idx = 100 => fn.col.w2 = 100)

\* C4 amended (FnSpec): triangle(0) = 0, triangle(2048) = 4094,
\* sawtooth(100) = 100, constant-high = 4095 at every phase.
C4_GoldenValues ==
    (fn.kind = "wave" /\ fn.done) =>
        /\ fn.col.w0 = 4095
        /\ (fn.idx = 0 => fn.col.w1 = 0)
        /\ (fn.idx = 2048 => fn.col.w1 = 4094)
        /\ (fn.idx = 100 => fn.col.w2 = 100)

\* the column of phase 2048 has been written
C4_Witness ==
    fn.kind = "wave" /\ fn.done /\ fn.idx = 2048

\* C5 (FnSpec): at every phase the sawtooth entry lies in [0, 4095] and the
\* triangle entry in [0, 8190]; every entry of row 3 (pulse+triangle+sawtooth)
\* of every combined table lies in [0, 4095].
C5_Ranges ==
    /\ (fn.kind = "wave" /\ fn.done) =>
          /\ fn.col.w2 \in 0..4095
          /\ fn.col.w1 \in 0..8190
    /\ (fn.kind = "pulldown" /\ fn.done /\ fn.wav = 3) =>
          fn.value \in 0..4095

\* an entry of row 3 that reaches the upper end of the range
C5_Witness ==
    fn.kind = "pulldown" /\ fn.done /\ fn.wav = 3 /\ fn.value = 4095

\* C6 (Spec): the constructor runs at most once; wftable is empty before it
\* starts and complete, with the constructor's values, once it is over; and a
\* thread holds the instance only when the table is complete.
C6_OneInstanceFullyBuilt ==
    /\ ctorRuns <= 1
    /\ (guard = "uninit") = (ctorRuns = 0)
    /\ guard = "uninit" => wftable = <<>>
    /\ guard = "done" => wftable = FullWftable
    /\ \A t \in Threads :
          inst[t] # None => (guard = "done" /\ wftable = FullWftable)

\* a thread called getInstance while another was half way through the
\* constructor
C6_Witness ==
    \E t1, t2 \in Threads :
        /\ pc[t1] = "ctor"
        /\ pc[t2] = "initwait"
        /\ Len(wftable) > 0
        /\ Len(wftable) < Len(CtorPhases)

\* C7 (FairSpec): every call to buildPulldownTable eventually returns.
C7_EveryCallReturns ==
    \A t \in Threads : (pc[t] \in {"lock", "lookup", "build"}) ~> (pc[t] = "idle")

\* a caller waits for the lock another caller holds
C7_Witness ==
    \E t1, t2 \in Threads : pc[t1] = "lock" /\ mutex = t2 /\ InBuild(t2)

\* what a call is served as: a model other than MOS6581 as MOS8580, a
\* variance class other than WEAK and STRONG as AVERAGE
ServedAs(p) ==
    <<CASE p[2] = "WEAK" -> "configWeak"
        [] p[2] = "STRONG" -> "configStrong"
        [] p[2] \in {"AVERAGE", "BadCws"} -> "configAverage",
      CASE p[1] = "MOS6581" -> 0
        [] p[1] \in {"MOS8580", "BadModel"} -> 1>>

\* C8 as stated: a call with an argument that is no enumerator returns no
\* table.
C8_InvalidArgumentRejected ==
    watch \notin ValidPairs => refs = {}

\* C8 amended (SeqSpec): a call with an argument that is no enumerator is
\* served: a model that is not MOS6581 as MOS8580, a variance class that is
\* neither WEAK nor STRONG as AVERAGE.  It returns the cached table of that
\* configuration.
C8_InvalidArgumentServedAsDefault ==
    watch \notin ValidPairs =>
        \A r \in refs :
            \E n \in cache :
                /\ n.addr = r
                /\ n.key = ServedAs(watch)
                /\ n.table = pdTables[fgt][ServedAs(watch)]

\* a call with an argument that is no enumerator has returned a table
C8_Witness ==
    watch \notin ValidPairs /\ refs # {} /\ pc[1] = "idle"

\* C9 (FnSpec): for each of the 30 parameter entries and every phase, the
\* output of calculatePulldown has no bit that the phase has not, whatever the
\* comparisons with the threshold give: it is at most the phase, 0 for phase
\* 0, and a non-negative 12-bit value.
C9_OutputWithinPhaseBits ==
    (fn.kind = "pulldown" /\ fn.done) =>
        /\ fn.value \in 0..4095
        /\ BitAnd(fn.value, 4095 - fn.idx) = 0
        /\ fn.value <= fn.idx
        /\ (fn.idx = 0 => fn.value = 0)

\* an output that keeps some of the phase's bits and drops others
C9_Witness ==
    /\ fn.kind = "pulldown"
    /\ fn.done
    /\ fn.value # 0
    /\ fn.value # fn.idx

\* the parameter rows of a configuration: configAverage, configWeak or
\* configStrong, row 0 for the 6581 and row 1 for the 8580
ParameterArray(p) ==
    <<CASE p[2] = "AVERAGE" -> "configAverage"
        [] p[2] = "WEAK" -> "configWeak"
        [] p[2] = "STRONG" -> "configStrong",
      CASE p[1] = "MOS6581" -> 0
        [] p[1] = "MOS8580" -> 1>>

\* C10 (SeqSpec): the table returned for a valid (model, cws) is the table an
\* uncached build computes from that configuration's parameter rows, and no
\* two of the 6 valid configurations share a cache key.
C10_CachedEqualsUncached ==
    /\ watch \in ValidPairs =>
          \A r \in refs :
              TablesAt(cache, r) = {BuildTable(fgt, ParameterArray(watch))}
    /\ \A p, q \in ValidPairs :
          CfgArrayOf(p[1], p[2]) = CfgArrayOf(q[1], q[2]) => p = q

\* a valid configuration served from the cache while the cache holds other
\* configurations
C10_Witness ==
    watch \in ValidPairs /\ again /\ Cardinality(cache) >= 2 /\ pc[1] = "idle"

====
